---------------------------- MODULE Spec2Model ----------------------------
(***************************************************************************)
(* Model of saba_core's markup ingestion: the HTML tokenizer               *)
(* (renderer/html/token.rs), the DOM node graph (renderer/dom/node.rs) and  *)
(* the tree constructor (renderer/dom/parser.rs).                           *)
(*                                                                         *)
(* Characters are one-character strings, Rust Strings and Vec<char> are    *)
(* sequences of characters.  Vec indices are 0-based in the source and     *)
(* 1-based here: input[pos] of the source is input[pos + 1] here.          *)
(* A Rust panic (index out of bounds, failed assert!, panic!, expect) is   *)
(* recorded in a `panic` field / the "panicked" control state.             *)
(***************************************************************************)
EXTENDS Integers, Sequences, FiniteSets, TLC

VARIABLES
    input,          \* HtmlTokenizer.input : Vec<char>
    tok,            \* HtmlTokenizer: state, pos, reconsume, latest_token, buf
    out,            \* the results of the calls of HtmlTokenizer::next so far, in order
    mode,           \* HtmlParser.mode
    original_insertion_mode,
    stack_of_open_elements,   \* Vec of node ids, last = top
    nodes,          \* the node arena: nodes[1] is the Window's document
    token,          \* construct_tree's local `token`
    pc,             \* where construct_tree is: new / loop / returned / panicked
    panic,          \* the message of the panic that ended the call, or ""
    spins,          \* loop iterations since `token` was last assigned
    desc            \* the tag description the input was written from, or NoDesc

vars == <<input, tok, out, mode, original_insertion_mode,
          stack_of_open_elements, nodes, token, pc, panic, spins, desc>>

-----------------------------------------------------------------------------
(* Characters *)

UpperSeq == <<"A","B","C","D","E","F","G","H","I","J","K","L","M",
              "N","O","P","Q","R","S","T","U","V","W","X","Y","Z">>
LowerSeq == <<"a","b","c","d","e","f","g","h","i","j","k","l","m",
              "n","o","p","q","r","s","t","u","v","w","x","y","z">>

is_ascii_uppercase(c) == \E i \in DOMAIN UpperSeq : UpperSeq[i] = c
is_ascii_lowercase(c) == \E i \in DOMAIN LowerSeq : LowerSeq[i] = c
is_ascii_alphabetic(c) == is_ascii_uppercase(c) \/ is_ascii_lowercase(c)

to_ascii_lowercase(c) ==
    IF is_ascii_uppercase(c)
    THEN LowerSeq[CHOOSE i \in DOMAIN UpperSeq : UpperSeq[i] = c]
    ELSE c

-----------------------------------------------------------------------------
(* Attribute (attribute.rs) *)

AttributeNew == [name |-> <<>>, value |-> <<>>]
add_name(a, c) == [a EXCEPT !.name = Append(@, c)]
add_value_prepend(a, c) == [a EXCEPT !.value = <<c>> \o @]
add_value(a, c) == [a EXCEPT !.value = Append(@, c)]

-----------------------------------------------------------------------------
(* HtmlToken (token.rs).  Every token is a record of the same shape; the   *)
(* fields a variant does not have are empty.  "NoToken" is Option::None of  *)
(* latest_token, "None" the None returned by next, "Panic" a panic inside   *)
(* next.                                                                    *)

MkToken(ty, tag, sc, attrs, c) ==
    [type |-> ty, tag |-> tag, self_closing |-> sc, attributes |-> attrs, c |-> c]

StartTag(tag, sc, attrs) == MkToken("StartTag", tag, sc, attrs, "")
EndTag(tag) == MkToken("EndTag", tag, FALSE, <<>>, "")
Char(c) == MkToken("Char", <<>>, FALSE, <<>>, c)
EOF == MkToken("EOF", <<>>, FALSE, <<>>, "")
NoToken == MkToken("NoToken", <<>>, FALSE, <<>>, "")
None == MkToken("None", <<>>, FALSE, <<>>, "")
Panic == MkToken("Panic", <<>>, FALSE, <<>>, "")
Continue == MkToken("Continue", <<>>, FALSE, <<>>, "")

-----------------------------------------------------------------------------
(* HtmlTokenizer (token.rs) *)

TokenizerNew ==
    [state |-> "Data", pos |-> 0, reconsume |-> FALSE,
     latest_token |-> NoToken, buf |-> <<>>, panic |-> ""]

is_eof_at_last(t, len) == t.pos >= len

is_eof(t, len) == t.pos > len

create_tag_start_only(t, start_tag_token) ==
    [t EXCEPT !.latest_token = StartTag(<<>>, FALSE, <<>>)]

create_tag(t, start_tag_token) ==
    IF start_tag_token
    THEN [t EXCEPT !.latest_token = StartTag(<<>>, FALSE, <<>>)]
    ELSE [t EXCEPT !.latest_token = EndTag(<<>>)]

append_tag_name(t, c) ==
    IF t.latest_token.type = "NoToken"
    THEN [t EXCEPT !.panic = "assert latest_token.is_some"]
    ELSE IF t.latest_token.type \in {"StartTag", "EndTag"}
    THEN [t EXCEPT !.latest_token.tag = Append(@, c)]
    ELSE [t EXCEPT !.panic = "latest_token should be either StartTag or EndTag"]

start_new_attribute(t) ==
    IF t.latest_token.type = "NoToken"
    THEN [t EXCEPT !.panic = "assert latest_token.is_some"]
    ELSE IF t.latest_token.type = "StartTag"
    THEN [t EXCEPT !.latest_token.attributes = Append(@, AttributeNew)]
    ELSE [t EXCEPT !.panic = "latest_token should be StartTag"]

append_attribute(t, c, is_name) ==
    IF t.latest_token.type = "NoToken"
    THEN [t EXCEPT !.panic = "assert latest_token.is_some"]
    ELSE IF t.latest_token.type = "StartTag"
    THEN LET len == Len(t.latest_token.attributes) IN
         IF ~(len > 0)
         THEN [t EXCEPT !.panic = "assert len > 0"]
         ELSE IF is_name
         THEN [t EXCEPT !.latest_token.attributes[len] = add_name(@, c)]
         ELSE [t EXCEPT !.latest_token.attributes[len] = add_value(@, c)]
    ELSE [t EXCEPT !.panic = "latest_token should be StartTag"]

set_self_closing_flag(t) ==
    IF t.latest_token.type = "NoToken"
    THEN [t EXCEPT !.panic = "assert latest_token.is_some"]
    ELSE IF t.latest_token.type = "StartTag"
    THEN [t EXCEPT !.latest_token.self_closing = TRUE]
    ELSE [t EXCEPT !.panic = "latest_token should be StartTag"]

(* One pass of the loop of next ends in `continue` (Cont) or `return` (Ret). *)
Cont(t) == [t |-> t, ret |-> Continue]
Ret(t, r) == [t |-> t, ret |-> r]

take_latest_token(t) ==
    IF t.latest_token.type = "NoToken"
    THEN Ret([t EXCEPT !.panic = "assert latest_token.is_some"], Panic)
    ELSE Ret([t EXCEPT !.latest_token = NoToken], t.latest_token)


(* The arms of `match self.state` in next, one operator per state.  t is the *)
(* tokenizer after the character c was read, len is input.len().           *)

StepData(t, c, len) ==
    IF c = "<" THEN Cont([t EXCEPT !.state = "TagOpen"])
    ELSE IF is_eof(t, len) THEN Ret(t, EOF)
    ELSE Ret(t, Char(c))

StepTagOpen(t, c, len) ==
    IF c = "/" THEN Cont([t EXCEPT !.state = "EndTagOpen"])
    ELSE IF is_ascii_alphabetic(c)
    THEN Cont(create_tag([t EXCEPT !.reconsume = TRUE, !.state = "TagName"], TRUE))
    ELSE IF is_eof(t, len) THEN Ret(t, EOF)
    ELSE Cont([t EXCEPT !.reconsume = TRUE, !.state = "Data"])

StepEndTagOpen(t, c, len) ==
    IF is_eof(t, len) THEN Ret(t, EOF)
    ELSE IF is_ascii_alphabetic(c)
    THEN Cont(create_tag([t EXCEPT !.reconsume = TRUE, !.state = "TagName"], FALSE))
    ELSE Cont(t)

StepTagName_no_fold(t, c, len) ==
    IF c = " " THEN Cont([t EXCEPT !.state = "BeforeAttributeName"])
    ELSE IF c = "/" THEN Cont([t EXCEPT !.state = "SelfClosingStartTag"])
    ELSE IF c = ">" THEN take_latest_token([t EXCEPT !.state = "Data"])
    ELSE IF is_eof(t, len) THEN Ret(t, EOF)
    ELSE Cont(append_tag_name(t, c))

StepTagName(t, c, len) ==
    IF c = " " THEN Cont([t EXCEPT !.state = "BeforeAttributeName"])
    ELSE IF c = "/" THEN Cont([t EXCEPT !.state = "SelfClosingStartTag"])
    ELSE IF c = ">" THEN take_latest_token([t EXCEPT !.state = "Data"])
    ELSE IF is_ascii_uppercase(c) THEN Cont(append_tag_name(t, to_ascii_lowercase(c)))
    ELSE IF is_eof(t, len) THEN Ret(t, EOF)
    ELSE Cont(append_tag_name(t, c))

StepBeforeAttributeName(t, c, len) ==
    IF c = "/" \/ c = ">" \/ is_eof(t, len)
    THEN Cont([t EXCEPT !.reconsume = TRUE, !.state = "AfterAttributeName"])
    ELSE Cont(start_new_attribute(
                [t EXCEPT !.reconsume = TRUE, !.state = "AttributeName"]))

StepAttributeName(t, c, len) ==
    IF c = " " \/ c = "/" \/ is_eof(t, len)
    THEN Cont([t EXCEPT !.reconsume = FALSE, !.state = "AfterAttributeName"])
    ELSE IF c = "=" THEN Cont([t EXCEPT !.state = "BeforeAttributeValue"])
    ELSE Cont(append_attribute(t, to_ascii_lowercase(c), TRUE))

StepAfterAttributeName(t, c, len) ==
    IF c = " " THEN Cont(t)
    ELSE IF c = "/" THEN Cont([t EXCEPT !.state = "SelfClosingStartTag"])
    ELSE IF c = "=" THEN Cont([t EXCEPT !.state = "BeforeAttributeValue"])
    ELSE IF c = ">" THEN take_latest_token([t EXCEPT !.state = "Data"])
    ELSE IF is_eof(t, len) THEN Ret(t, EOF)
    ELSE Cont(start_new_attribute(
                [t EXCEPT !.reconsume = TRUE, !.state = "AttributeName"]))

StepBeforeAttributeValue(t, c, len) ==
    IF c = " " THEN Cont(t)
    ELSE IF c = "\"" THEN Cont([t EXCEPT !.state = "AttributeValueDoubleQuoted"])
    ELSE IF c = "'" THEN Cont([t EXCEPT !.state = "AttributeValueSingleQuoted"])
    ELSE Cont([t EXCEPT !.reconsume = TRUE, !.state = "AttributeValueUnquoted"])

StepAttributeValueDoubleQuoted(t, c, len) ==
    IF c = "\"" THEN Cont([t EXCEPT !.state = "AfterAttributeValueQuoted"])
    ELSE IF is_eof(t, len) THEN Ret(t, EOF)
    ELSE Cont(append_attribute(t, c, FALSE))

StepAttributeValueSingleQuoted(t, c, len) ==
    IF c = "'" THEN Cont([t EXCEPT !.state = "AfterAttributeValueQuoted"])
    ELSE IF is_eof(t, len) THEN Ret(t, EOF)
    ELSE Cont(append_attribute(t, c, FALSE))

StepAttributeValueUnquoted(t, c, len) ==
    IF c = " " THEN Cont([t EXCEPT !.state = "BeforeAttributeName"])
    ELSE IF c = ">" THEN take_latest_token([t EXCEPT !.state = "Data"])
    ELSE IF is_eof(t, len) THEN Ret(t, EOF)
    ELSE Cont(append_attribute(t, c, FALSE))

StepAfterAttributeValueQuoted(t, c, len) ==
    IF c = " " THEN Cont([t EXCEPT !.state = "BeforeAttributeName"])
    ELSE IF c = "/" THEN Cont([t EXCEPT !.state = "SelfClosingStartTag"])
    ELSE IF c = ">" THEN take_latest_token([t EXCEPT !.state = "Data"])
    ELSE IF is_eof(t, len) THEN Ret(t, EOF)
    ELSE Cont([t EXCEPT !.reconsume = TRUE, !.state = "BeforeAttributeValue"])

StepSelfClosingStartTag(t, c, len) ==
    IF c = ">"
    THEN LET t1 == set_self_closing_flag(t) IN
         IF t1.panic # "" THEN Ret(t1, Panic)
         ELSE take_latest_token([t1 EXCEPT !.state = "Data"])
    ELSE IF is_eof(t, len) THEN Ret(t, EOF)
    ELSE Cont(t)

StepScriptData(t, c, len) ==
    IF c = "<" THEN Cont([t EXCEPT !.state = "ScriptDataLessThanSign"])
    ELSE IF is_eof(t, len) THEN Ret(t, EOF)
    ELSE Ret(t, Char(c))

StepScriptDataLessThanSign(t, c, len) ==
    IF c = "/"
    THEN Cont([t EXCEPT !.buf = <<>>, !.state = "ScriptDataEndTagOpen"])
    ELSE Ret([t EXCEPT !.reconsume = TRUE, !.state = "ScriptData"], Char("<"))

StepScriptDataEndTagOpen(t, c, len) ==
    IF is_ascii_alphabetic(c)
    THEN Cont(create_tag(
                [t EXCEPT !.reconsume = TRUE, !.state = "ScriptDataEndTagName"], FALSE))
    ELSE Ret([t EXCEPT !.reconsume = TRUE, !.state = "ScriptData"], Char("<"))

StepScriptDataEndTagName(t, c, len) ==
    IF c = ">" THEN take_latest_token([t EXCEPT !.state = "Data"])
    ELSE IF is_ascii_alphabetic(c)
    THEN Cont(append_tag_name([t EXCEPT !.buf = Append(@, c)], to_ascii_lowercase(c)))
    ELSE Cont([t EXCEPT !.state = "TemporaryBuffer",
                        !.buf = Append(<<"<", "/">> \o @, c)])

StepTemporaryBuffer(t, c, len) ==
    IF t.buf = <<>>
    THEN Cont([t EXCEPT !.reconsume = TRUE, !.state = "ScriptData"])
    ELSE Ret([t EXCEPT !.reconsume = TRUE, !.buf = Tail(@)], Char(Head(t.buf)))

StepState(t, c, len) ==
    CASE t.state = "Data" -> StepData(t, c, len)
      [] t.state = "TagOpen" -> StepTagOpen(t, c, len)
      [] t.state = "EndTagOpen" -> StepEndTagOpen(t, c, len)
      [] t.state = "TagName" -> StepTagName(t, c, len)
      [] t.state = "BeforeAttributeName" -> StepBeforeAttributeName(t, c, len)
      [] t.state = "AttributeName" -> StepAttributeName(t, c, len)
      [] t.state = "AfterAttributeName" -> StepAfterAttributeName(t, c, len)
      [] t.state = "BeforeAttributeValue" -> StepBeforeAttributeValue(t, c, len)
      [] t.state = "AttributeValueDoubleQuoted" -> StepAttributeValueDoubleQuoted(t, c, len)
      [] t.state = "AttributeValueSingleQuoted" -> StepAttributeValueSingleQuoted(t, c, len)
      [] t.state = "AttributeValueUnquoted" -> StepAttributeValueUnquoted(t, c, len)
      [] t.state = "AfterAttributeValueQuoted" -> StepAfterAttributeValueQuoted(t, c, len)
      [] t.state = "SelfClosingStartTag" -> StepSelfClosingStartTag(t, c, len)
      [] t.state = "ScriptData" -> StepScriptData(t, c, len)
      [] t.state = "ScriptDataLessThanSign" -> StepScriptDataLessThanSign(t, c, len)
      [] t.state = "ScriptDataEndTagOpen" -> StepScriptDataEndTagOpen(t, c, len)
      [] t.state = "ScriptDataEndTagName" -> StepScriptDataEndTagName(t, c, len)
      [] t.state = "TemporaryBuffer" -> StepTemporaryBuffer(t, c, len)

(* reconsume_input / consume_next_input: the tokenizer after the read and   *)
(* the character read; an index outside 0..len-1 panics.                    *)
reconsume_input(t, inp) ==
    IF t.pos - 1 < 0 \/ t.pos - 1 >= Len(inp)
    THEN [t |-> [t EXCEPT !.reconsume = FALSE, !.panic = "index out of bounds"], c |-> ""]
    ELSE [t |-> [t EXCEPT !.reconsume = FALSE], c |-> inp[t.pos]]

consume_next_input(t, inp) ==
    IF t.pos >= Len(inp)
    THEN [t |-> [t EXCEPT !.panic = "index out of bounds"], c |-> ""]
    ELSE [t |-> [t EXCEPT !.pos = @ + 1], c |-> inp[t.pos + 1]]

(* The `loop` of next: read a character, run the state's arm, repeat until  *)
(* an arm returns or something panics.                                      *)
RECURSIVE NextLoop(_, _)
NextLoop(t, inp) ==
    LET rd == IF t.reconsume THEN reconsume_input(t, inp)
                             ELSE consume_next_input(t, inp)
    IN  IF rd.t.panic # "" THEN Ret(rd.t, Panic)
        ELSE LET r == StepState(rd.t, rd.c, Len(inp)) IN
             IF r.t.panic # "" THEN Ret(r.t, Panic)
             ELSE IF r.ret.type = "Continue" THEN NextLoop(r.t, inp)
             ELSE r

next_without_entry_check(t, inp) == NextLoop(t, inp)

next_restarting(t, inp) ==
    IF t.pos >= Len(inp) THEN Ret([t EXCEPT !.pos = 0], None) ELSE NextLoop(t, inp)

(* HtmlTokenizer::next: None once pos >= input.len(), else the loop.        *)
next(t, inp) ==
    IF t.pos >= Len(inp) THEN Ret(t, None) ELSE NextLoop(t, inp)

-----------------------------------------------------------------------------
(* Node graph (node.rs).  A node is a record of the arena `nodes`; a link   *)
(* is a node id, 0 for Option::None / Weak::new().  The document is node 1. *)

DocumentId == 1

NodeNew(kind, element_kind, attributes, text) ==
    [kind |-> kind, element_kind |-> element_kind, attributes |-> attributes,
     text |-> text, parent |-> 0, first_child |-> 0, last_child |-> 0,
     previous_sibling |-> 0, next_sibling |-> 0]

WindowNew == << NodeNew("Document", "", <<>>, <<>>) >>

(* The tag names the code compares with, as character sequences *)
S_html == <<"h","t","m","l">>
S_head == <<"h","e","a","d">>
S_style == <<"s","t","y","l","e">>
S_script == <<"s","c","r","i","p","t">>
S_body == <<"b","o","d","y">>
S_p == <<"p">>
S_h1 == <<"h","1">>
S_h2 == <<"h","2">>
S_a == <<"a">>

ElementKindFromStr_default_html(s) ==
    CASE s = S_head -> "Head"
      [] s = S_style -> "Style"
      [] s = S_script -> "Script"
      [] s = S_body -> "Body"
      [] s = S_p -> "P"
      [] s = S_h1 -> "H1"
      [] s = S_h2 -> "H2"
      [] s = S_a -> "A"
      [] OTHER -> "Html"

(* ElementKind::from_str: "Err" stands for Err(..) *)
ElementKindFromStr(s) ==
    CASE s = S_html -> "Html"
      [] s = S_head -> "Head"
      [] s = S_style -> "Style"
      [] s = S_script -> "Script"
      [] s = S_body -> "Body"
      [] s = S_p -> "P"
      [] s = S_h1 -> "H1"
      [] s = S_h2 -> "H2"
      [] s = S_a -> "A"
      [] OTHER -> "Err"

(* Node::element_kind: "" stands for None (Document, Text) *)
element_kind(n) == IF n.kind = "Element" THEN n.element_kind ELSE ""

NodeKindEq_derived(k1, k2) ==
    /\ k1.kind = k2.kind
    /\ k1.element_kind = k2.element_kind
    /\ k1.attributes = k2.attributes
    /\ k1.text = k2.text

(* impl PartialEq for NodeKind, on the kind part of two node records *)
NodeKindEq(k1, k2) ==
    CASE k1.kind = "Document" -> k2.kind = "Document"
      [] k1.kind = "Element" ->
            IF k2.kind = "Element" THEN k1.element_kind = k2.element_kind
            ELSE FALSE
      [] k1.kind = "Text" -> k2.kind = "Text"

(* impl PartialEq for Node: self.kind == other.kind *)
NodeEq(n1, n2) == NodeKindEq(n1, n2)

-----------------------------------------------------------------------------
(* HtmlParser (parser.rs).  The operators below work on a record ps of the  *)
(* parser's fields during one pass of construct_tree's loop:                *)
(*   mode, original_insertion_mode, stack_of_open_elements, nodes, t (the   *)
(*   tokenizer), token (the local), panic ("" or the panic message),        *)
(*   returned (construct_tree returned), fetched (token was assigned).      *)
(* A panic ends the call: every later operation of the pass is skipped.     *)

HtmlParserNew(t) ==
    [mode |-> "Initial", original_insertion_mode |-> "Initial",
     stack_of_open_elements |-> <<>>, nodes |-> WindowNew, t |-> t,
     token |-> NoToken, panic |-> "", returned |-> FALSE, fetched |-> FALSE]

Last(seq) == seq[Len(seq)]
Front(seq) == SubSeq(seq, 1, Len(seq) - 1)

(* token = self.t.next() *)
FetchToken(ps, inp) ==
    IF ps.panic # "" THEN ps
    ELSE LET r == next(ps.t, inp) IN
         [ps EXCEPT !.t = r.t,
                    !.token = r.ret,
                    !.fetched = TRUE,
                    !.panic = IF r.ret.type = "Panic" THEN r.t.panic ELSE ""]

SetMode(ps, m) == IF ps.panic # "" THEN ps ELSE [ps EXCEPT !.mode = m]

RECURSIVE LastSibling(_, _)
LastSibling(ns, n) ==
    IF ns[n].next_sibling # 0 THEN LastSibling(ns, ns[n].next_sibling) ELSE n

insert_element_as_first_child(ps, tag, attributes) ==
    IF ps.panic # "" THEN ps
    ELSE
    LET current == IF ps.stack_of_open_elements # <<>>
                   THEN Last(ps.stack_of_open_elements)
                   ELSE DocumentId
        kind == ElementKindFromStr(tag)
        id == Len(ps.nodes) + 1
        ns0 == Append(ps.nodes, NodeNew("Element", kind, attributes, <<>>))
        ns1 == [ns0 EXCEPT ![current].first_child = id]
        ns2 == [ns1 EXCEPT ![current].last_child = id, ![id].parent = current]
    IN  IF kind = "Err"
        THEN [ps EXCEPT !.panic = "Failed to convert string to ElementKind"]
        ELSE [ps EXCEPT !.nodes = ns2,
                        !.stack_of_open_elements = Append(@, id)]

insert_element_no_parent(ps, tag, attributes) ==
    IF ps.panic # "" THEN ps
    ELSE
    LET current == IF ps.stack_of_open_elements # <<>>
                   THEN Last(ps.stack_of_open_elements)
                   ELSE DocumentId
        kind == ElementKindFromStr(tag)
        id == Len(ps.nodes) + 1
        ns0 == Append(ps.nodes, NodeNew("Element", kind, attributes, <<>>))
        ns1 == IF ns0[current].first_child # 0
               THEN LET last_sibling == LastSibling(ns0, ns0[current].first_child) IN
                    [ns0 EXCEPT ![last_sibling].next_sibling = id,
                                ![id].previous_sibling = last_sibling]
               ELSE [ns0 EXCEPT ![current].first_child = id]
        ns2 == [ns1 EXCEPT ![current].last_child = id]
    IN  IF kind = "Err"
        THEN [ps EXCEPT !.panic = "Failed to convert string to ElementKind"]
        ELSE [ps EXCEPT !.nodes = ns2,
                        !.stack_of_open_elements = Append(@, id)]

insert_element_no_back_link(ps, tag, attributes) ==
    IF ps.panic # "" THEN ps
    ELSE
    LET current == IF ps.stack_of_open_elements # <<>>
                   THEN Last(ps.stack_of_open_elements)
                   ELSE DocumentId
        kind == ElementKindFromStr(tag)
        id == Len(ps.nodes) + 1
        ns0 == Append(ps.nodes, NodeNew("Element", kind, attributes, <<>>))
        ns1 == IF ns0[current].first_child # 0
               THEN LET last_sibling == LastSibling(ns0, ns0[current].first_child) IN
                    [ns0 EXCEPT ![last_sibling].next_sibling = id]
               ELSE [ns0 EXCEPT ![current].first_child = id]
        ns2 == [ns1 EXCEPT ![current].last_child = id, ![id].parent = current]
    IN  IF kind = "Err"
        THEN [ps EXCEPT !.panic = "Failed to convert string to ElementKind"]
        ELSE [ps EXCEPT !.nodes = ns2,
                        !.stack_of_open_elements = Append(@, id)]

(* Attach the new node `id` (already in ns) under `current` as the code of   *)
(* insert_element does: after the last node of the sibling chain.           *)
insert_element(ps, tag, attributes) ==
    IF ps.panic # "" THEN ps
    ELSE
    LET current == IF ps.stack_of_open_elements # <<>>
                   THEN Last(ps.stack_of_open_elements)
                   ELSE DocumentId
        kind == ElementKindFromStr(tag)
        id == Len(ps.nodes) + 1
        ns0 == Append(ps.nodes, NodeNew("Element", kind, attributes, <<>>))
        ns1 == IF ns0[current].first_child # 0
               THEN LET last_sibling == LastSibling(ns0, ns0[current].first_child) IN
                    [ns0 EXCEPT ![last_sibling].next_sibling = id,
                                ![id].previous_sibling = last_sibling]
               ELSE [ns0 EXCEPT ![current].first_child = id]
        ns2 == [ns1 EXCEPT ![current].last_child = id, ![id].parent = current]
    IN  IF kind = "Err"
        THEN [ps EXCEPT !.panic = "Failed to convert string to ElementKind"]
        ELSE [ps EXCEPT !.nodes = ns2,
                        !.stack_of_open_elements = Append(@, id)]

pop_current_node_no_pop(ps, kind) ==
    IF ps.stack_of_open_elements = <<>> THEN [ps |-> ps, ok |-> FALSE]
    ELSE IF element_kind(ps.nodes[Last(ps.stack_of_open_elements)]) = kind
    THEN [ps |-> ps, ok |-> TRUE]
    ELSE [ps |-> ps, ok |-> FALSE]

pop_current_node(ps, kind) ==
    IF ps.stack_of_open_elements = <<>> THEN [ps |-> ps, ok |-> FALSE]
    ELSE IF element_kind(ps.nodes[Last(ps.stack_of_open_elements)]) = kind
    THEN [ps |-> [ps EXCEPT !.stack_of_open_elements = Front(@)], ok |-> TRUE]
    ELSE [ps |-> ps, ok |-> FALSE]

contain_in_stack_always(ps, kind) == TRUE

contain_in_stack(ps, kind) ==
    \E i \in DOMAIN ps.stack_of_open_elements :
        element_kind(ps.nodes[ps.stack_of_open_elements[i]]) = kind

RECURSIVE PopLoop(_, _, _)
PopLoop(ns, stack, kind) ==
    IF stack = <<>> THEN stack
    ELSE IF element_kind(ns[Last(stack)]) = kind THEN Front(stack)
    ELSE PopLoop(ns, Front(stack), kind)

pop_until(ps, kind) ==
    IF ps.panic # "" THEN ps
    ELSE IF ~contain_in_stack(ps, kind)
    THEN [ps EXCEPT !.panic = "Stack doesn't have an element"]
    ELSE [ps EXCEPT !.stack_of_open_elements = PopLoop(ps.nodes, @, kind)]

insert_char_no_merge(ps, c) ==
    IF ps.panic # "" \/ ps.stack_of_open_elements = <<>> THEN ps
    ELSE
    LET current == Last(ps.stack_of_open_elements)
        id == Len(ps.nodes) + 1
        ns0 == Append(ps.nodes, NodeNew("Text", "", <<>>, <<c>>))
        first == ns0[current].first_child
        ns1 == IF first # 0
               THEN [ns0 EXCEPT ![first].next_sibling = id,
                                ![id].previous_sibling = first]
               ELSE [ns0 EXCEPT ![current].first_child = id]
        ns2 == [ns1 EXCEPT ![current].last_child = id, ![id].parent = current]
    IN  IF c = "\n" \/ c = " " THEN ps
        ELSE [ps EXCEPT !.nodes = ns2,
                        !.stack_of_open_elements = Append(@, id)]

insert_char(ps, c) ==
    IF ps.panic # "" \/ ps.stack_of_open_elements = <<>> THEN ps
    ELSE
    LET current == Last(ps.stack_of_open_elements)
        id == Len(ps.nodes) + 1
        ns0 == Append(ps.nodes, NodeNew("Text", "", <<>>, <<c>>))
        first == ns0[current].first_child
        ns1 == IF first # 0
               THEN [ns0 EXCEPT ![first].next_sibling = id,
                                ![id].previous_sibling = first]
               ELSE [ns0 EXCEPT ![current].first_child = id]
        ns2 == [ns1 EXCEPT ![current].last_child = id, ![id].parent = current]
    IN  IF ps.nodes[current].kind = "Text"
        THEN [ps EXCEPT !.nodes[current].text = Append(@, c)]
        ELSE IF c = "\n" \/ c = " " THEN ps
        ELSE [ps EXCEPT !.nodes = ns2,
                        !.stack_of_open_elements = Append(@, id)]

(* return self.window.clone() *)
Return(ps) == [ps EXCEPT !.returned = TRUE]

IsSpace(c) == c = " " \/ c = "\n"

(* The arms of `match self.mode` in construct_tree, one operator per mode:  *)
(* one pass of the while loop, from the parser record ps to the record      *)
(* after the pass.                                                          *)

ModeInitial(ps, inp) ==
    IF ps.token.type = "Char" THEN FetchToken(ps, inp)
    ELSE SetMode(ps, "BeforeHtml")

ModeBeforeHtml(ps, inp) ==
    CASE ps.token.type = "Char" ->
            IF IsSpace(ps.token.c) THEN FetchToken(ps, inp) ELSE ps
      [] ps.token.type = "StartTag" ->
            IF ps.token.tag = S_html
            THEN FetchToken(
                   SetMode(insert_element(ps, ps.token.tag, ps.token.attributes),
                           "BeforeHead"), inp)
            ELSE ps
      [] ps.token.type \in {"EOF", "None"} -> Return(ps)
      [] OTHER -> ps

ModeBeforeHead(ps, inp) ==
    LET anything_else == SetMode(insert_element(ps, S_head, <<>>), "InHead") IN
    CASE ps.token.type = "Char" ->
            IF IsSpace(ps.token.c) THEN FetchToken(ps, inp) ELSE anything_else
      [] ps.token.type = "StartTag" ->
            IF ps.token.tag = S_head
            THEN FetchToken(
                   SetMode(insert_element(ps, ps.token.tag, ps.token.attributes),
                           "InHead"), inp)
            ELSE anything_else
      [] ps.token.type \in {"EOF", "None"} -> Return(ps)
      [] OTHER -> anything_else

ModeInHead(ps, inp) ==
    LET ignore == FetchToken(ps, inp) IN
    CASE ps.token.type = "Char" ->
            IF IsSpace(ps.token.c)
            THEN FetchToken(insert_char(ps, ps.token.c), inp)
            ELSE ignore
      [] ps.token.type = "StartTag" ->
            IF ps.token.tag = S_style \/ ps.token.tag = S_script
            THEN LET p1 == insert_element(ps, ps.token.tag, ps.token.attributes)
                     p2 == IF p1.panic # "" THEN p1
                           ELSE [p1 EXCEPT !.original_insertion_mode = p1.mode]
                 IN  FetchToken(SetMode(p2, "Text"), inp)
            ELSE LET p1 == IF ps.token.tag = S_body
                           THEN SetMode(pop_until(ps, "Head"), "AfterHead")
                           ELSE ps
                 IN  IF ElementKindFromStr(ps.token.tag) # "Err"
                     THEN SetMode(pop_until(p1, "Head"), "AfterHead")
                     ELSE FetchToken(p1, inp)
      [] ps.token.type = "EndTag" ->
            IF ps.token.tag = S_head
            THEN pop_until(FetchToken(SetMode(ps, "AfterHead"), inp), "Head")
            ELSE ignore
      [] ps.token.type \in {"EOF", "None"} -> Return(ps)

ModeAfterHead_consuming(ps, inp) ==
    LET anything_else ==
            FetchToken(SetMode(insert_element(ps, S_body, <<>>), "InBody"), inp)
    IN
    CASE ps.token.type = "Char" ->
            IF IsSpace(ps.token.c)
            THEN FetchToken(insert_char(ps, ps.token.c), inp)
            ELSE anything_else
      [] ps.token.type = "StartTag" ->
            IF ps.token.tag = S_body
            THEN SetMode(
                   FetchToken(insert_element(ps, ps.token.tag, ps.token.attributes), inp),
                   "InBody")
            ELSE anything_else
      [] ps.token.type \in {"EOF", "None"} -> Return(ps)
      [] OTHER -> anything_else

ModeAfterHead(ps, inp) ==
    LET anything_else == SetMode(insert_element(ps, S_body, <<>>), "InBody") IN
    CASE ps.token.type = "Char" ->
            IF IsSpace(ps.token.c)
            THEN FetchToken(insert_char(ps, ps.token.c), inp)
            ELSE anything_else
      [] ps.token.type = "StartTag" ->
            IF ps.token.tag = S_body
            THEN SetMode(
                   FetchToken(insert_element(ps, ps.token.tag, ps.token.attributes), inp),
                   "InBody")
            ELSE anything_else
      [] ps.token.type \in {"EOF", "None"} -> Return(ps)
      [] OTHER -> anything_else

ModeInBody(ps, inp) ==
    CASE ps.token.type = "StartTag" ->
            IF ps.token.tag \in {S_p, S_h1, S_h2, S_a}
            THEN FetchToken(insert_element(ps, ps.token.tag, ps.token.attributes), inp)
            ELSE FetchToken(ps, inp)
      [] ps.token.type = "EndTag" ->
            CASE ps.token.tag = S_body ->
                    LET p1 == FetchToken(SetMode(ps, "AfterBody"), inp) IN
                    IF ~contain_in_stack(p1, "Body") THEN p1
                    ELSE pop_until(p1, "Body")
              [] ps.token.tag = S_html ->
                    LET r1 == pop_current_node(ps, "Body") IN
                    IF r1.ok
                    THEN LET p1 == SetMode(r1.ps, "AfterBody")
                             r2 == pop_current_node(p1, "Html")
                         IN  IF r2.ok THEN r2.ps
                             ELSE [p1 EXCEPT !.panic = "assert pop_current_node(Html)"]
                    ELSE FetchToken(ps, inp)
              [] ps.token.tag = S_p -> pop_until(FetchToken(ps, inp), "P")
              [] ps.token.tag \in {S_h1, S_h2} ->
                    LET kind == ElementKindFromStr(ps.token.tag) IN
                    pop_until(FetchToken(ps, inp), kind)
              [] ps.token.tag = S_a -> pop_until(FetchToken(ps, inp), "A")
              [] OTHER -> FetchToken(ps, inp)
      [] ps.token.type = "Char" -> FetchToken(insert_char(ps, ps.token.c), inp)
      [] ps.token.type \in {"EOF", "None"} -> Return(ps)

ModeText(ps, inp) ==
    LET restore == SetMode(ps, ps.original_insertion_mode) IN
    CASE ps.token.type \in {"EOF", "None"} -> Return(ps)
      [] ps.token.type = "EndTag" ->
            IF ps.token.tag = S_style
            THEN LET p1 == pop_until(ps, "Style") IN
                 FetchToken(SetMode(p1, p1.original_insertion_mode), inp)
            ELSE IF ps.token.tag = S_script
            THEN LET p1 == pop_until(ps, "Script") IN
                 FetchToken(SetMode(p1, p1.original_insertion_mode), inp)
            ELSE restore
      [] ps.token.type = "Char" -> FetchToken(insert_char(ps, ps.token.c), inp)
      [] OTHER -> restore

ModeAfterBody_consuming(ps, inp) ==
    CASE ps.token.type = "Char" -> FetchToken(ps, inp)
      [] ps.token.type = "EndTag" ->
            IF ps.token.tag = S_html
            THEN FetchToken(SetMode(ps, "AfterAfterBody"), inp)
            ELSE FetchToken(SetMode(ps, "InBody"), inp)
      [] ps.token.type \in {"EOF", "None"} -> Return(ps)
      [] OTHER -> FetchToken(SetMode(ps, "InBody"), inp)

ModeAfterBody(ps, inp) ==
    CASE ps.token.type = "Char" -> FetchToken(ps, inp)
      [] ps.token.type = "EndTag" ->
            IF ps.token.tag = S_html
            THEN FetchToken(SetMode(ps, "AfterAfterBody"), inp)
            ELSE SetMode(ps, "InBody")
      [] ps.token.type \in {"EOF", "None"} -> Return(ps)
      [] OTHER -> SetMode(ps, "InBody")

ModeAfterAfterBody(ps, inp) ==
    CASE ps.token.type = "Char" -> FetchToken(ps, inp)
      [] ps.token.type \in {"EOF", "None"} -> Return(ps)
      [] OTHER -> SetMode(ps, "InBody")

-----------------------------------------------------------------------------
(* Inputs.  The documents given to construct_tree are the documents of the  *)
(* tests of parser.rs, and every concatenation of at most MaxFrags markup   *)
(* fragments, alone or after the opening of a document, of its head, of its *)
(* body, of a body that starts with text, of a document whose html tag is  *)
(* followed directly by a p tag, or of a body that holds two closed         *)
(* paragraphs.                                                              *)

MaxFrags == 2
MaxSpins == 4

F_html == <<"<","h","t","m","l",">">>
F_end_head == <<"<","/","h","e","a","d",">">>
F_body == <<"<","b","o","d","y",">">>
F_end_body == <<"<","/","b","o","d","y",">">>
F_end_html == <<"<","/","h","t","m","l",">">>
F_p == <<"<","p",">">>
F_end_p == <<"<","/","p",">">>
F_a_foo_bar == <<"<","a"," ","f","o","o","=","b","a","r",">">>
F_end_a == <<"<","/","a",">">>
F_h1 == <<"<","h","1",">">>
F_h2 == <<"<","h","2",">">>
F_end_h1 == <<"<","/","h","1",">">>
F_script == <<"<","s","c","r","i","p","t",">">>
F_end_script == <<"<","/","s","c","r","i","p","t",">">>
F_end_style == <<"<","/","s","t","y","l","e",">">>
F_t == <<"t">>
F_space == <<" ">>
F_img == <<"<","i","m","g"," ","/",">">>

Fragments == {F_html, F_end_head, F_body, F_end_body, F_end_html, F_p, F_end_p, F_a_foo_bar, F_end_a, F_h1, F_h2, F_end_h1, F_script, F_end_script, F_end_style, F_t, F_space, F_img}

TestBody == <<"<","h","t","m","l",">","<","h","e","a","d",">","<","/","h","e","a","d",">","<","b","o","d","y",">","<","/","b","o","d","y",">","<","/","h","t","m","l",">">>
TestText == <<"<","h","t","m","l",">","<","h","e","a","d",">","<","/","h","e","a","d",">","<","b","o","d","y",">","t","e","x","t","<","/","b","o","d","y",">","<","/","h","t","m","l",">">>
TestMultipleNodes == <<"<","h","t","m","l",">","<","h","e","a","d",">","<","/","h","e","a","d",">","<","b","o","d","y",">","<","p",">","<","a"," ","f","o","o","=","b","a","r",">","t","e","x","t","<","/","a",">","<","/","p",">","<","/","b","o","d","y",">","<","/","h","t","m","l",">">>

TestDocuments == {TestBody, TestText, TestMultipleNodes}

S_head_open == <<"<","h","e","a","d",">">>
HeadOpening == F_html \o S_head_open
BodyOpening == HeadOpening \o F_end_head \o F_body

BodyText == BodyOpening \o F_t

FlowOpening == F_html \o F_p

TwoParagraphs == BodyOpening \o F_p \o F_end_p \o F_p \o F_end_p

Prefixes == {<<>>, F_html, HeadOpening, BodyOpening, BodyText, FlowOpening, TwoParagraphs}

RECURSIVE Concat(_)
Concat(ss) == IF ss = <<>> THEN <<>> ELSE Head(ss) \o Concat(Tail(ss))

FragStrings == { Concat(fs) : fs \in UNION { [1..n -> Fragments] : n \in 0..MaxFrags } }

ParserInputs ==
    TestDocuments \cup { pre \o s : pre \in Prefixes, s \in FragStrings }

-----------------------------------------------------------------------------
(* construct_tree as a state machine: Start is the first self.t.next(), one *)
(* action per insertion mode is one pass of the while loop in that mode,    *)
(* LoopExit is the loop condition failing (token is None).                  *)

PS == [mode |-> mode, original_insertion_mode |-> original_insertion_mode,
       stack_of_open_elements |-> stack_of_open_elements, nodes |-> nodes,
       t |-> tok, token |-> token, panic |-> "", returned |-> FALSE,
       fetched |-> FALSE]

Apply(ps) ==
    /\ mode' = ps.mode
    /\ original_insertion_mode' = ps.original_insertion_mode
    /\ stack_of_open_elements' = ps.stack_of_open_elements
    /\ nodes' = ps.nodes
    /\ tok' = ps.t
    /\ token' = ps.token
    /\ panic' = ps.panic
    /\ pc' = IF ps.panic # "" THEN "panicked"
             ELSE IF ps.returned THEN "returned" ELSE "loop"
    /\ spins' = IF ps.fetched THEN 0 ELSE spins + 1
    /\ out' = IF ps.fetched THEN Append(out, ps.token) ELSE out
    /\ UNCHANGED <<input, desc>>

Init ==
    /\ input \in ParserInputs
    /\ desc = [end |-> FALSE, name |-> <<>>, attrs |-> <<>>, spaces |-> 0,
               self_closing |-> FALSE]
    /\ tok = TokenizerNew
    /\ out = <<>>
    /\ mode = HtmlParserNew(tok).mode
    /\ original_insertion_mode = HtmlParserNew(tok).original_insertion_mode
    /\ stack_of_open_elements = HtmlParserNew(tok).stack_of_open_elements
    /\ nodes = HtmlParserNew(tok).nodes
    /\ token = NoToken
    /\ panic = ""
    /\ pc = "new"
    /\ spins = 0

Start ==
    /\ pc = "new"
    /\ Apply(FetchToken(PS, input))

InLoop(m) ==
    /\ pc = "loop"
    /\ token.type # "None"
    /\ mode = m
    /\ spins < MaxSpins

Initial == InLoop("Initial") /\ Apply(ModeInitial(PS, input))
BeforeHtml == InLoop("BeforeHtml") /\ Apply(ModeBeforeHtml(PS, input))
BeforeHead == InLoop("BeforeHead") /\ Apply(ModeBeforeHead(PS, input))
InHead == InLoop("InHead") /\ Apply(ModeInHead(PS, input))
AfterHead == InLoop("AfterHead") /\ Apply(ModeAfterHead(PS, input))
InBody == InLoop("InBody") /\ Apply(ModeInBody(PS, input))
Text == InLoop("Text") /\ Apply(ModeText(PS, input))
AfterBody == InLoop("AfterBody") /\ Apply(ModeAfterBody(PS, input))
AfterAfterBody == InLoop("AfterAfterBody") /\ Apply(ModeAfterAfterBody(PS, input))

LoopExit ==
    /\ pc = "loop"
    /\ token.type = "None"
    /\ pc' = "returned"
    /\ UNCHANGED <<input, tok, out, mode, original_insertion_mode,
                   stack_of_open_elements, nodes, token, panic, spins, desc>>

Next ==
    \/ Start
    \/ Initial
    \/ BeforeHtml
    \/ BeforeHead
    \/ InHead
    \/ AfterHead
    \/ InBody
    \/ Text
    \/ AfterBody
    \/ AfterAfterBody
    \/ LoopExit

Spec == Init /\ [][Next]_vars

-----------------------------------------------------------------------------
(* The tokenizer alone, driven as the tests of token.rs drive it: a         *)
(* tokenizer is constructed over an input and next is called repeatedly.    *)
(* The inputs are every string of at most MaxLen characters of Alphabet,    *)
(* the inputs of the tests, and the tags written by Render from a           *)
(* description (TagDescs).                                                  *)

MaxLen == 4
MaxAttrs == 2
MaxSpaces == 2

Alphabet == {"<", ">", "/", " ", "=", "\"", "a", "B"}

AllStrings == UNION { [1..n -> Alphabet] : n \in 0..MaxLen }

TestStartAndEndTag == <<"<","b","o","d","y",">","<","/","b","o","d","y",">">>
TestAttributes == <<"<","p"," ","c","l","a","s","s","=","\"","A","\""," ","i","d","=","'","B","'"," ","f","o","o","=","b","a","r",">","<","/","p",">">>
TestSelfClosingTag == <<"<","i","m","g"," ","/",">">>
TestScriptTag == <<"<","s","c","r","i","p","t",">","j","s"," ","c","o","d","e",";","<","/","s","c","r","i","p","t",">">>

TokenizerTests ==
    {TestStartAndEndTag, TestAttributes, TestSelfClosingTag, TestScriptTag}

(* A script element as written: <script>, a content without '<' of at most  *)
(* MaxContent characters, </script>.                                        *)
MaxContent == 2

ScriptAlphabet == {"j", ";", " ", ">", "/"}

ScriptContents == UNION { [1..n -> ScriptAlphabet] : n \in 0..MaxContent }

ScriptInputs == { F_script \o c \o F_end_script : c \in ScriptContents }

(* The tag <p class=a> written with a space or a newline after the tag     *)
(* name and, optionally, one after the attribute name and one after the     *)
(* attribute value.                                                         *)
TagSeparators == {" ", "\n"}

OptionalSeparators == {<<>>} \cup { <<s>> : s \in TagSeparators }

SeparatorInputs ==
    { <<"<","p",s>> \o <<"c","l","a","s","s">> \o n \o <<"=","a">> \o v \o <<">">> :
        s \in TagSeparators, n \in OptionalSeparators, v \in OptionalSeparators }

(* The tag <p foo>, whose attribute has no value, written with or without   *)
(* a separator before ">" and followed by nothing or by a character.        *)
BareAttributeInputs ==
    { <<"<","p"," ","f","o","o">> \o s \o <<">">> \o r :
        s \in OptionalSeparators, r \in {<<>>, <<"t">>} }

TagNames == {<<"p">>, <<"P">>, <<"i","M","g">>}
AttrNames == {<<"C","L","A","S","S">>, <<"i","d">>}
AttrValues == {<<"a","B">>}
Quotes == {"\"", "'", ""}

AttrDescs == [name : AttrNames, value : AttrValues, quote : Quotes]

(* A tag as written: "<", "/" for an end tag, the name, the attributes each *)
(* after one space as name=value with the value in its quotes, `spaces`     *)
(* spaces, "/" for a self-closing tag, ">".                                 *)
TagDescs ==
    [end : BOOLEAN, name : TagNames,
     attrs : UNION { [1..n -> AttrDescs] : n \in 0..MaxAttrs },
     spaces : 0..MaxSpaces, self_closing : BOOLEAN]

RenderAttr(a) ==
    <<" ">> \o a.name \o <<"=">>
    \o (IF a.quote = "" THEN <<>> ELSE <<a.quote>>) \o a.value
    \o (IF a.quote = "" THEN <<>> ELSE <<a.quote>>)

RECURSIVE RenderAttrs(_)
RenderAttrs(as) ==
    IF as = <<>> THEN <<>> ELSE RenderAttr(Head(as)) \o RenderAttrs(Tail(as))

Render(d) ==
    <<"<">> \o (IF d.end THEN <<"/">> ELSE <<>>) \o d.name
    \o RenderAttrs(d.attrs)
    \o [i \in 1..d.spaces |-> " "]
    \o (IF d.self_closing THEN <<"/">> ELSE <<>>) \o <<">">>

NoDesc ==
    [end |-> FALSE, name |-> <<>>, attrs |-> <<>>, spaces |-> 0, self_closing |-> FALSE]

InitTok ==
    /\ \/ /\ desc = NoDesc
          /\ input \in AllStrings \cup TokenizerTests \cup ScriptInputs
                       \cup SeparatorInputs \cup BareAttributeInputs
       \/ desc \in TagDescs /\ input = Render(desc)
    /\ tok = TokenizerNew
    /\ out = <<>>
    /\ mode = HtmlParserNew(tok).mode
    /\ original_insertion_mode = HtmlParserNew(tok).original_insertion_mode
    /\ stack_of_open_elements = HtmlParserNew(tok).stack_of_open_elements
    /\ nodes = HtmlParserNew(tok).nodes
    /\ token = NoToken
    /\ panic = ""
    /\ pc = "new"
    /\ spins = 0

(* One call of tokenizer.next(); its result is appended to out.  No call    *)
(* follows a panic, and at most one call follows a call that returned None. *)
TokNext ==
    /\ pc = "new"
    /\ out # <<>> => Last(out).type # "Panic"
    /\ Len(out) >= 2 => ~(out[Len(out)].type = "None" /\ out[Len(out) - 1].type = "None")
    /\ LET r == next(tok, input) IN
         /\ tok' = r.t
         /\ out' = Append(out, r.ret)
    /\ UNCHANGED <<input, mode, original_insertion_mode, stack_of_open_elements,
                   nodes, token, pc, panic, spins, desc>>

NextTok == TokNext

SpecTok == InitTok /\ [][NextTok]_vars

-----------------------------------------------------------------------------
(* The node API alone (node.rs): nodes are constructed with Node::new and   *)
(* Element::new, linked with the setters, and compared with ==.  `nodes`    *)
(* holds the nodes constructed so far, `out` the results of the last        *)
(* comparison of the nodes with each other (empty after any other call).    *)
(* At most MaxNodes nodes are constructed and at most MaxLinks links set.   *)

MaxNodes == 2
MaxLinks == 1

NodeElementNames == {S_html, S_p, <<"i","m","g">>}

AttributeLists == {<<>>, <<[name |-> <<"f","o","o">>, value |-> <<"b","a","r">>]>>}

Texts == {<<"t">>, <<"t","e","x","t">>}

LinkFields == {"parent", "first_child", "last_child", "previous_sibling", "next_sibling"}

LinkCount(ns) ==
    Cardinality({<<i, f>> \in (DOMAIN ns) \X LinkFields : ns[i][f] # 0})

Call(op, name, attributes, a, b, result) ==
    [op |-> op, name |-> name, attributes |-> attributes,
     a |-> a, b |-> b, result |-> result]

InitNode ==
    /\ nodes = <<>>
    /\ out = <<>>
    /\ input = <<>>
    /\ desc = NoDesc
    /\ tok = TokenizerNew
    /\ mode = HtmlParserNew(tok).mode
    /\ original_insertion_mode = HtmlParserNew(tok).original_insertion_mode
    /\ stack_of_open_elements = HtmlParserNew(tok).stack_of_open_elements
    /\ token = NoToken
    /\ panic = ""
    /\ pc = "new"
    /\ spins = 0

NodeUnchanged ==
    UNCHANGED <<input, tok, mode, original_insertion_mode,
                stack_of_open_elements, token, spins, desc>>

(* Node::new(NodeKind::Document) *)
NewDocument ==
    /\ pc = "new" /\ Len(nodes) < MaxNodes
    /\ nodes' = Append(nodes, NodeNew("Document", "", <<>>, <<>>))
    /\ out' = <<>>
    /\ UNCHANGED <<pc, panic>>
    /\ NodeUnchanged

(* Node::new(NodeKind::Text(s)) *)
NewText ==
    /\ pc = "new" /\ Len(nodes) < MaxNodes
    /\ \E s \in Texts : nodes' = Append(nodes, NodeNew("Text", "", <<>>, s))
    /\ out' = <<>>
    /\ UNCHANGED <<pc, panic>>
    /\ NodeUnchanged

(* Element::new(name, attributes): the element is appended to ns, or the    *)
(* expect on the result of from_str panics.                                 *)
ElementNewResult(ns, name, attributes) ==
    LET kind == ElementKindFromStr(name) IN
    IF kind = "Err"
    THEN [nodes |-> ns, pc |-> "panicked",
          panic |-> "Failed to convert string to ElementKind",
          out |-> <<Call("Element::new", name, attributes, 0, 0, FALSE)>>]
    ELSE [nodes |-> Append(ns, NodeNew("Element", kind, attributes, <<>>)),
          pc |-> "new", panic |-> "",
          out |-> <<Call("Element::new", name, attributes, 0, 0, TRUE)>>]

(* Node::new(NodeKind::Element(Element::new(name, attributes))) *)
NewElement ==
    /\ pc = "new" /\ Len(nodes) < MaxNodes
    /\ \E name \in NodeElementNames, attributes \in AttributeLists :
          LET r == ElementNewResult(nodes, name, attributes) IN
          /\ nodes' = r.nodes
          /\ pc' = r.pc
          /\ panic' = r.panic
          /\ out' = <<>>
    /\ NodeUnchanged

(* node i's setter of link f is called with another node j *)
SetLink(f) ==
    /\ pc = "new" /\ LinkCount(nodes) < MaxLinks
    /\ \E i \in DOMAIN nodes, j \in DOMAIN nodes :
          /\ i # j
          /\ nodes' = [nodes EXCEPT ![i][f] = j]
    /\ out' = <<>>
    /\ UNCHANGED <<pc, panic>>
    /\ NodeUnchanged

set_parent == SetLink("parent")
set_first_child == SetLink("first_child")
set_last_child == SetLink("last_child")
set_previous_sibling == SetLink("previous_sibling")
set_next_sibling == SetLink("next_sibling")

(* nodes[a] == nodes[b], for every pair of the nodes constructed so far *)
NodeEqCall ==
    /\ pc = "new" /\ nodes # <<>>
    /\ out' = <<Call("eq", <<>>, <<>>, 0, 0,
                     [a \in DOMAIN nodes |->
                        [b \in DOMAIN nodes |-> NodeEq(nodes[a], nodes[b])]])>>
    /\ UNCHANGED <<nodes, pc, panic>>
    /\ NodeUnchanged

NextNode ==
    \/ NewDocument
    \/ NewText
    \/ NewElement
    \/ set_parent
    \/ set_first_child
    \/ set_last_child
    \/ set_previous_sibling
    \/ set_next_sibling
    \/ NodeEqCall

SpecNode == InitNode /\ [][NextNode]_vars

-----------------------------------------------------------------------------
(* Element::new alone: it is called once with a name and an attribute list. *)
(* The names are the nine names of ElementKind, other spellings of them,    *)
(* and every string of at most MaxNameLen characters of NameAlphabet.       *)

MaxNameLen == 2

NineNames == {S_html, S_head, S_style, S_script, S_body, S_p, S_h1, S_h2, S_a}

OtherNames ==
    {<<"i","m","g">>, <<"H","T","M","L">>, <<"B","o","d","y">>, <<"h","t","m">>,
     <<"h","t","m","l","s">>, <<"h","3">>}

NameAlphabet == {"a", "A", "p", "P", "h", "1", "2"}

NameInputs ==
    NineNames \cup OtherNames
    \cup UNION { [1..n -> NameAlphabet] : n \in 0..MaxNameLen }

InitElement ==
    /\ input \in NameInputs
    /\ nodes = <<>>
    /\ out = <<>>
    /\ desc = NoDesc
    /\ tok = TokenizerNew
    /\ mode = HtmlParserNew(tok).mode
    /\ original_insertion_mode = HtmlParserNew(tok).original_insertion_mode
    /\ stack_of_open_elements = HtmlParserNew(tok).stack_of_open_elements
    /\ token = NoToken
    /\ panic = ""
    /\ pc = "new"
    /\ spins = 0

(* Element::new(input, attributes) *)
ElementNew ==
    /\ pc = "new" /\ out = <<>>
    /\ \E attributes \in AttributeLists :
          LET r == ElementNewResult(nodes, input, attributes) IN
          /\ nodes' = r.nodes
          /\ pc' = r.pc
          /\ panic' = r.panic
          /\ out' = r.out
    /\ NodeUnchanged

NextElement == ElementNew

SpecElement == InitElement /\ [][NextElement]_vars

-----------------------------------------------------------------------------
(* Properties *)

Top == Last(stack_of_open_elements)

(* C1: construct_tree never aborts because of a malformed or unexpected     *)
(* token sequence (an unmatched or wrong end tag, a tag in the wrong        *)
(* context); the only failure markup can trigger in the tree constructor is *)
(* an unrecognized element name.  (tok.panic = "" : the panic is not one of *)
(* the tokenizer.)                                                          *)
C1_NeverAbortsOnTokenSequence ==
    (pc = "panicked" /\ tok.panic = "")
        => panic = "Failed to convert string to ElementKind"

(* C2: every pass of the loop of construct_tree either consumes the current *)
(* token (assigns the next one to `token`) or changes the insertion mode;   *)
(* in particular a pass in BeforeHtml does.                                 *)
C2_EveryPassConsumesOrChangesMode ==
    [][(pc = "loop" /\ pc' = "loop") => (spins' = 0 \/ mode' # mode)]_vars

(* C3: no call of next reads the input at an index outside 0..len-1, also   *)
(* when the input ends inside an unterminated tag.                          *)
C3_NoReadOutsideInput == tok.panic # "index out of bounds"

(* The ASCII lowercase of a character and of a string, written out        *)
(* independently of the tokenizer's own folding.                            *)
FoldCase(c) ==
    CASE c = "A" -> "a"
      [] c = "B" -> "b"
      [] c = "C" -> "c"
      [] c = "D" -> "d"
      [] c = "E" -> "e"
      [] c = "F" -> "f"
      [] c = "G" -> "g"
      [] c = "H" -> "h"
      [] c = "I" -> "i"
      [] c = "J" -> "j"
      [] c = "K" -> "k"
      [] c = "L" -> "l"
      [] c = "M" -> "m"
      [] c = "N" -> "n"
      [] c = "O" -> "o"
      [] c = "P" -> "p"
      [] c = "Q" -> "q"
      [] c = "R" -> "r"
      [] c = "S" -> "s"
      [] c = "T" -> "t"
      [] c = "U" -> "u"
      [] c = "V" -> "v"
      [] c = "W" -> "w"
      [] c = "X" -> "x"
      [] c = "Y" -> "y"
      [] c = "Z" -> "z"
      [] OTHER -> c

FoldStr(str) == [i \in 1..Len(str) |-> FoldCase(str[i])]

NoLt(str) == \A i \in 1..Len(str) : str[i] # "<"

(* C4 as stated: for an input without '<' the tokenizer yields one Char     *)
(* token per input character, in input order, followed by an EOF token.     *)
C4_OneCharPerCharacterThenEOF ==
    NoLt(input) =>
        \A i \in 1..Len(out) :
            /\ i <= Len(input) => out[i] = Char(input[i])
            /\ i = Len(input) + 1 => out[i] = EOF

(* C4 as amended: for an input without '<' the tokenizer yields one Char    *)
(* token per input character, in input order, and then next returns None    *)
(* (the iteration ends); no EOF token is yielded.                           *)
C4_OneCharPerCharacterThenNone ==
    NoLt(input) =>
        \A i \in 1..Len(out) :
            /\ i <= Len(input) => out[i] = Char(input[i])
            /\ i > Len(input) => out[i] = None

C4_Witness ==
    /\ NoLt(input)
    /\ Len(input) >= 2
    /\ Len(out) = Len(input) + 1

(* The value of the i-th attribute of a tag description as the source text  *)
(* holds it: the characters between the quotes, or the unquoted run up to   *)
(* the next space or '>' (which takes in a '/' written right after it).     *)
SourceValue(d, i) ==
    IF i = Len(d.attrs) /\ d.attrs[i].quote = "" /\ d.spaces = 0 /\ d.self_closing
    THEN Append(d.attrs[i].value, "/")
    ELSE d.attrs[i].value

(* C5: the tag emitted for a start or end tag has the ASCII-lowercase of    *)
(* the source tag name as its name, the ASCII-lowercase of each source      *)
(* attribute name as the attribute's name, and each attribute value with    *)
(* its case unchanged.                                                      *)
C5_NamesFoldedValuesKept ==
    (desc # NoDesc /\ out # <<>> /\ out[1].type \in {"StartTag", "EndTag"}) =>
        /\ out[1].type = (IF desc.end THEN "EndTag" ELSE "StartTag")
        /\ out[1].tag = FoldStr(desc.name)
        /\ Len(out[1].attributes) >= Len(desc.attrs)
        /\ \A i \in 1..Len(desc.attrs) :
              /\ out[1].attributes[i].name = FoldStr(desc.attrs[i].name)
              /\ out[1].attributes[i].value = SourceValue(desc, i)

C5_Witness ==
    /\ desc # NoDesc
    /\ desc.name = <<"P">>
    /\ Len(desc.attrs) = 1
    /\ desc.attrs[1] = [name |-> <<"C","L","A","S","S">>, value |-> <<"a","B">>,
                        quote |-> "\""]
    /\ out # <<>>
    /\ out[1] = StartTag(<<"p">>, FALSE,
                         <<[name |-> <<"c","l","a","s","s">>, value |-> <<"a","B">>]>>)

(* C10: a start tag written as a name, optional spaces and "/>", with no    *)
(* attributes, tokenizes to exactly one StartTag with the lowercased name,  *)
(* an empty attribute list and self_closing true; closed by '>' alone it    *)
(* has self_closing false.                                                  *)
C10_SelfClosingTagNoAttributes ==
    (/\ desc # NoDesc
     /\ ~desc.end
     /\ desc.attrs = <<>>
     /\ desc.self_closing \/ desc.spaces = 0
     /\ Len(out) >= 2) =>
        /\ out[1] = StartTag(FoldStr(desc.name), desc.self_closing, <<>>)
        /\ out[2] = None

(* The links of a node that is attached to nothing *)
NoLinks(n) ==
    /\ n.parent = 0 /\ n.first_child = 0 /\ n.last_child = 0
    /\ n.previous_sibling = 0 /\ n.next_sibling = 0

IsElement(id, kind) ==
    id # 0 /\ nodes[id].kind = "Element" /\ nodes[id].element_kind = kind

(* C6: building from <html><head></head><body></body></html> returns a     *)
(* document whose first child is an html element, whose first child is a    *)
(* head element, whose next sibling is a body element; head and body have   *)
(* no children, head has no previous sibling and body no next sibling.      *)
C6_SkeletonTree ==
    input = TestBody =>
        /\ pc # "panicked"
        /\ pc = "returned" =>
              LET html == nodes[DocumentId].first_child
                  head == nodes[html].first_child
                  body == nodes[head].next_sibling
              IN  /\ IsElement(html, "Html")
                  /\ IsElement(head, "Head")
                  /\ IsElement(body, "Body")
                  /\ nodes[head].first_child = 0
                  /\ nodes[body].first_child = 0
                  /\ nodes[head].previous_sibling = 0
                  /\ nodes[body].next_sibling = 0

C6_Witness == input = TestBody /\ pc = "returned" /\ Len(nodes) = 4

(* A character token is the first of a run of character tokens when the     *)
(* token fetched before it was not a character token.                       *)
RunStart ==
    /\ token.type = "Char"
    /\ Len(out) = 1 \/ (Len(out) > 1 /\ out[Len(out) - 1].type # "Char")

(* The pass created exactly one node, a Text node holding c, as a child of  *)
(* the element on top of the stack, and pushed it.                          *)
NewTextUnderTop(c) ==
    LET id == Len(nodes) + 1 IN
    /\ Len(nodes') = id
    /\ nodes[Top].kind = "Element"
    /\ nodes'[id].kind = "Text"
    /\ nodes'[id].text = <<c>>
    /\ nodes'[id].parent = Top
    /\ nodes'[Top].last_child = id
    /\ stack_of_open_elements' = Append(stack_of_open_elements, id)

(* C7 as stated: every run of consecutive character tokens in the body that *)
(* starts with a non-whitespace character produces a Text node of its own,  *)
(* a child of the open element, that starts with the run's first character. *)
C7_EveryRunCreatesItsTextNode ==
    [][(/\ pc = "loop" /\ mode = "InBody" /\ pc' = "loop"
        /\ stack_of_open_elements # <<>>
        /\ RunStart /\ ~IsSpace(token.c))
       => NewTextUnderTop(token.c)]_vars

(* C7 as amended: a character token processed in InBody while an element is *)
(* on top of the open-element stack creates, if it is not whitespace,       *)
(* exactly one Text node holding it, as a child of that element, and pushes *)
(* it; a character token processed while a Text node is on top is appended  *)
(* to that node and creates no node.  So a run that starts with a           *)
(* non-whitespace character at an element ends in one Text node holding the *)
(* run in order (the body "text" gives body's first child Text("text")),    *)
(* and a run that starts at a Text node extends that node.                  *)
C7_RunMergedIntoOneTextNode ==
    /\ [](input = TestText /\ pc = "returned" =>
            LET body == nodes[nodes[nodes[DocumentId].first_child].first_child].next_sibling
                text == nodes[body].first_child
            IN  /\ IsElement(body, "Body")
                /\ text # 0
                /\ nodes[text].kind = "Text"
                /\ nodes[text].text = <<"t", "e", "x", "t">>
                /\ Cardinality({n \in DOMAIN nodes : nodes[n].kind = "Text"}) = 1)
    /\ [][(/\ pc = "loop" /\ mode = "InBody" /\ pc' = "loop"
           /\ stack_of_open_elements # <<>>
           /\ token.type = "Char")
          => IF nodes[Top].kind = "Text"
             THEN /\ nodes' = [nodes EXCEPT ![Top].text = Append(@, token.c)]
                  /\ stack_of_open_elements' = stack_of_open_elements
             ELSE ~IsSpace(token.c) => NewTextUnderTop(token.c)]_vars

C7_Witness ==
    /\ pc = "loop" /\ mode = "InBody"
    /\ stack_of_open_elements # <<>>
    /\ nodes[Top].kind = "Text"
    /\ nodes[nodes[Top].parent].kind = "Element"
    /\ Len(nodes[Top].text) >= 2

(* The topmost entry of the stack that is an element (0 if there is none):  *)
(* the element opened last that is still open.                              *)
OpenElement ==
    LET es == {i \in DOMAIN stack_of_open_elements :
                  nodes[stack_of_open_elements[i]].kind = "Element"}
    IN  IF es = {} THEN 0
        ELSE stack_of_open_elements[CHOOSE i \in es : \A j \in es : j <= i]

(* C8: each p/h1/h2/a start tag seen in InBody becomes a child of the       *)
(* element opened just before it, with the token's attribute list           *)
(* unchanged, and is pushed; a matching end tag closes the elements down to *)
(* the latest open element of its kind.                                     *)
C8_StartTagIsChildOfOpenElement ==
    [][(/\ pc = "loop" /\ mode = "InBody" /\ pc' = "loop"
        /\ stack_of_open_elements # <<>>
        /\ token.tag \in {S_p, S_h1, S_h2, S_a})
       => LET id == Len(nodes) + 1
              kind == ElementKindFromStr(token.tag)
              open == {i \in DOMAIN stack_of_open_elements :
                          element_kind(nodes[stack_of_open_elements[i]]) = kind}
          IN  /\ token.type = "StartTag" =>
                    /\ Len(nodes') = id
                    /\ nodes'[id].kind = "Element"
                    /\ nodes'[id].element_kind = kind
                    /\ nodes'[id].attributes = token.attributes
                    /\ nodes'[id].parent = OpenElement
                    /\ stack_of_open_elements' = Append(stack_of_open_elements, id)
              /\ (token.type = "EndTag" /\ open # {}) =>
                    /\ nodes' = nodes
                    /\ stack_of_open_elements' =
                          SubSeq(stack_of_open_elements, 1,
                                 (CHOOSE i \in open : \A j \in open : j <= i) - 1)]_vars

(* C9: building from the empty string returns a Window whose document has   *)
(* no first child, no last child, no parent and no siblings, with the       *)
(* open-element stack empty and the mode Initial.                           *)
C9_EmptyInput ==
    input = <<>> =>
        /\ pc # "panicked"
        /\ Len(nodes) = 1
        /\ nodes[DocumentId].kind = "Document"
        /\ NoLinks(nodes[DocumentId])
        /\ stack_of_open_elements = <<>>
        /\ mode = "Initial"

C9_Witness == input = <<>> /\ pc = "returned"

(* A start tag whose name is outside the closed element set *)
UnknownStartTag(tk) ==
    tk.type = "StartTag" /\ ElementKindFromStr(tk.tag) = "Err"

(* C11: a build from markup that contains a start tag whose name is outside *)
(* the closed element set (<img />, alone or inside <body>) fails at that   *)
(* tag with the unrecognized-element failure: the tag is never passed over  *)
(* (no token is fetched after it) and the build never returns with it.      *)
C11_UnknownStartTagRejected ==
    \A i \in DOMAIN out :
        UnknownStartTag(out[i]) =>
            /\ i = Len(out)
            /\ pc # "returned"

(* The input is <script>, a content without '<', </script> *)
IsScriptElement(inp) ==
    /\ Len(inp) >= Len(F_script) + Len(F_end_script)
    /\ SubSeq(inp, 1, Len(F_script)) = F_script
    /\ SubSeq(inp, Len(inp) - Len(F_end_script) + 1, Len(inp)) = F_end_script
    /\ NoLt(SubSeq(inp, Len(F_script) + 1, Len(inp) - Len(F_end_script)))

ScriptContent(inp) == SubSeq(inp, Len(F_script) + 1, Len(inp) - Len(F_end_script))

(* C12: for a script element whose content contains no '<', the tokenizer   *)
(* yields StartTag script, then one Char token per content character in     *)
(* order, then EndTag script (and then None).                               *)
C12_ScriptContentAsChars ==
    IsScriptElement(input) =>
        LET content == ScriptContent(input)
            n == Len(content)
        IN  \A i \in DOMAIN out :
              /\ i = 1 => out[i] = StartTag(S_script, FALSE, <<>>)
              /\ (1 < i /\ i <= n + 1) => out[i] = Char(content[i - 1])
              /\ i = n + 2 => out[i] = EndTag(S_script)
              /\ i > n + 2 => out[i] = None

C12_Witness ==
    /\ IsScriptElement(input)
    /\ Len(ScriptContent(input)) >= 2
    /\ Len(out) = Len(ScriptContent(input)) + 2
    /\ out[Len(out)] = EndTag(S_script)

(* C13: once a script or style start tag has been inserted (the constructor *)
(* is in Text mode), the characters up to the matching end tag are raw      *)
(* text: the tokens the constructor sees there are Char tokens and the end  *)
(* tag of the open script/style element only; markup inside the element     *)
(* ("<p>", "</a>") never produces a StartTag token or another EndTag token. *)
C13_RawTextUntilMatchingEndTag ==
    (pc = "loop" /\ mode = "Text" /\ OpenElement # 0) =>
        \/ token.type \in {"Char", "None"}
        \/ /\ token.type = "EndTag"
           /\ ElementKindFromStr(token.tag) = element_kind(nodes[OpenElement])

(* The attribute list a tag description stands for: one attribute per       *)
(* written attribute, in order, the name folded, the value as written       *)
(* between the quotes (or unquoted).                                        *)
SourceAttributes(d) ==
    [i \in 1..Len(d.attrs) |->
        [name |-> FoldStr(d.attrs[i].name), value |-> d.attrs[i].value]]

(* C14: for a start tag whose attributes are each written after one space   *)
(* as name="v", name='v' or name=v and that is closed by '>', the emitted   *)
(* StartTag carries exactly one Attribute per source attribute, in source   *)
(* order, with the value equal to the characters between the quotes (or the *)
(* unquoted run), the quotes excluded; so does the tag of test_attributes.  *)
C14_OneAttributePerSourceAttribute ==
    /\ (/\ desc # NoDesc /\ ~desc.end /\ desc.spaces = 0 /\ ~desc.self_closing
        /\ out # <<>>) =>
            out[1] = StartTag(FoldStr(desc.name), FALSE, SourceAttributes(desc))
    /\ (input = TestAttributes /\ out # <<>>) =>
            out[1] = StartTag(<<"p">>, FALSE,
                        << [name |-> <<"c","l","a","s","s">>, value |-> <<"A">>],
                           [name |-> <<"i","d">>, value |-> <<"B">>],
                           [name |-> <<"f","o","o">>, value |-> <<"b","a","r">>] >>)

C14_Witness ==
    /\ desc # NoDesc /\ ~desc.end /\ desc.spaces = 0 /\ ~desc.self_closing
    /\ Len(desc.attrs) = 2
    /\ desc.attrs[1].quote = "'" /\ desc.attrs[2].quote = ""
    /\ desc.attrs[1].name # desc.attrs[2].name
    /\ Len(out) = 2
    /\ Len(out[1].attributes) = 2
    /\ out[2] = None

(* What == may look at: the variant of a node, and for an Element its kind *)
Class(n) == IF n.kind = "Element" THEN n.element_kind ELSE n.kind

(* C15: node equality looks at the node kind only.  Two nodes are equal     *)
(* exactly when they are both Documents, both Texts (whatever the content), *)
(* or both Elements of the same ElementKind (whatever the attributes); the  *)
(* parent, child and sibling links never influence it, and it is reflexive, *)
(* symmetric and transitive.                                                *)
C15_EqualityByKindOnly ==
    /\ \A a \in DOMAIN nodes, b \in DOMAIN nodes :
          /\ NodeEq(nodes[a], nodes[b]) <=> Class(nodes[a]) = Class(nodes[b])
          /\ NodeEq(nodes[a], nodes[a])
          /\ NodeEq(nodes[a], nodes[b]) => NodeEq(nodes[b], nodes[a])
          /\ \A c \in DOMAIN nodes :
                (NodeEq(nodes[a], nodes[b]) /\ NodeEq(nodes[b], nodes[c]))
                    => NodeEq(nodes[a], nodes[c])
    /\ (out # <<>> /\ out[1].op = "eq") =>
          \A a \in DOMAIN nodes, b \in DOMAIN nodes :
              out[1].result[a][b] = (Class(nodes[a]) = Class(nodes[b]))

C15_Witness ==
    /\ out # <<>> /\ out[1].op = "eq"
    /\ \E a \in DOMAIN nodes, b \in DOMAIN nodes :
          /\ a # b
          /\ out[1].result[a][b]
          /\ nodes[a].kind = "Element"
          /\ nodes[a].attributes # nodes[b].attributes
          /\ ~NoLinks(nodes[a])
          /\ NoLinks(nodes[b])

(* The kind each of the nine names stands for *)
KindOf ==
    (S_html :> "Html") @@ (S_head :> "Head") @@ (S_style :> "Style")
    @@ (S_script :> "Script") @@ (S_body :> "Body") @@ (S_p :> "P")
    @@ (S_h1 :> "H1") @@ (S_h2 :> "H2") @@ (S_a :> "A")

(* C16: ElementKind::from_str succeeds exactly for the nine lowercase names *)
(* html, head, style, script, body, p, h1, h2, a, each mapped to its own    *)
(* distinct kind, and returns an error for every other string (uppercase    *)
(* spellings and the empty string included); Element::new fails on exactly  *)
(* those other strings and otherwise builds an element of the name's kind   *)
(* with the attributes given, never one of a default kind.                  *)
C16_NineNamesOnly ==
    /\ ElementKindFromStr(input) =
          (IF input \in NineNames THEN KindOf[input] ELSE "Err")
    /\ \A s1 \in NineNames, s2 \in NineNames :
          s1 # s2 => ElementKindFromStr(s1) # ElementKindFromStr(s2)
    /\ (out # <<>> /\ out[1].op = "Element::new") =>
          /\ out[1].name = input
          /\ out[1].result <=> input \in NineNames
          /\ out[1].result =>
                /\ pc # "panicked"
                /\ Len(nodes) = 1
                /\ nodes[1].kind = "Element"
                /\ nodes[1].element_kind = KindOf[input]
                /\ nodes[1].attributes = out[1].attributes
          /\ ~out[1].result =>
                /\ pc = "panicked"
                /\ panic = "Failed to convert string to ElementKind"
                /\ nodes = <<>>

C16_Witness ==
    /\ input = <<"P">>
    /\ out # <<>> /\ out[1].op = "Element::new"
    /\ ~out[1].result
    /\ pc = "panicked"

(* The positions of the open-element stack that hold an element of a kind *)
OpenOfKind(kind) ==
    {i \in DOMAIN stack_of_open_elements :
        element_kind(nodes[stack_of_open_elements[i]]) = kind}

(* C17: in InHead with head on the open-element stack, a <body> start tag   *)
(* pops the stack through head exactly once and moves to AfterHead without  *)
(* failing and without consuming the token (body is then inserted from      *)
(* AfterHead), so a document with omitted head tags builds.                 *)
C17_BodyInHeadPopsHeadOnce ==
    [][(/\ pc = "loop" /\ mode = "InHead"
        /\ token.type = "StartTag" /\ token.tag = S_body
        /\ OpenOfKind("Head") # {})
       => /\ pc' = "loop"
          /\ mode' = "AfterHead"
          /\ token' = token
          /\ stack_of_open_elements' =
                SubSeq(stack_of_open_elements, 1,
                       (CHOOSE i \in OpenOfKind("Head") :
                            \A j \in OpenOfKind("Head") : j <= i) - 1)]_vars

(* C18: at every call of pop_until(K) made by construct_tree an element of  *)
(* kind K is on the open-element stack: the assertion at the start of       *)
(* pop_until never fails, whatever the token sequence.                      *)
C18_PopUntilAssertionHolds == panic # "Stack doesn't have an element"

(* The html start tag was followed directly by a p, h1, h2 or a start tag *)
HtmlThenFlowStartTag ==
    /\ Len(out) >= 2
    /\ out[1].type = "StartTag" /\ out[1].tag = S_html
    /\ out[2].type = "StartTag" /\ out[2].tag \in {S_p, S_h1, S_h2, S_a}

BodyOnTop ==
    stack_of_open_elements # <<>> /\ element_kind(nodes[Top]) = "Body"

(* C20: whenever the body element is the top of the open-element stack the  *)
(* html element is directly beneath it, so when </html> arrives in InBody   *)
(* with body on top, body and html are both popped (the asserted pop of     *)
(* html never fails), the mode becomes AfterBody and the token is kept;     *)
(* when the top is not body, the </html> token is consumed with the stack   *)
(* and the mode unchanged.                                                  *)
C20_HtmlBeneathBody ==
    /\ [](BodyOnTop =>
            /\ Len(stack_of_open_elements) >= 2
            /\ element_kind(nodes[stack_of_open_elements[
                                    Len(stack_of_open_elements) - 1]]) = "Html")
    /\ [](panic # "assert pop_current_node(Html)")
    /\ [][(/\ pc = "loop" /\ mode = "InBody"
           /\ token.type = "EndTag" /\ token.tag = S_html)
          => /\ pc' = "loop"
             /\ nodes' = nodes
             /\ IF BodyOnTop
                THEN /\ stack_of_open_elements' =
                           SubSeq(stack_of_open_elements, 1,
                                  Len(stack_of_open_elements) - 2)
                     /\ mode' = "AfterBody"
                     /\ token' = token /\ out' = out
                ELSE /\ stack_of_open_elements' = stack_of_open_elements
                     /\ mode' = mode
                     /\ Len(out') = Len(out) + 1
                     /\ token' = out'[Len(out')]]_vars

C20_Witness ==
    /\ pc = "loop" /\ mode = "AfterBody"
    /\ token.type = "EndTag" /\ token.tag = S_html
    /\ spins = 1
    /\ stack_of_open_elements = <<>>
    /\ Len(nodes) >= 4

(* The open-element stack cut down to the entries below its topmost element *)
(* of a kind                                                                *)
CutBelow(kind) ==
    SubSeq(stack_of_open_elements, 1,
           (CHOOSE i \in OpenOfKind(kind) : \A j \in OpenOfKind(kind) : j <= i) - 1)

(* C21: on a </body> end tag in InBody the token is consumed and the mode   *)
(* becomes AfterBody; the tree is left unchanged; the open-element stack is *)
(* left unchanged if no body element is on it, and is otherwise cut down to *)
(* exactly the entries below the body element.                              *)
C21_EndBodyCutsStackBelowBody ==
    [][(/\ pc = "loop" /\ mode = "InBody"
        /\ token.type = "EndTag" /\ token.tag = S_body)
       => /\ pc' = "loop"
          /\ mode' = "AfterBody"
          /\ Len(out') = Len(out) + 1
          /\ token' = out'[Len(out')]
          /\ nodes' = nodes
          /\ stack_of_open_elements' =
                (IF OpenOfKind("Body") = {} THEN stack_of_open_elements
                 ELSE CutBelow("Body"))]_vars

C21_Witness ==
    /\ pc = "loop" /\ mode = "AfterBody" /\ spins = 0
    /\ Len(out) >= 2
    /\ out[Len(out) - 1] = EndTag(S_body)
    /\ Len(nodes) >= 5
    /\ Len(stack_of_open_elements) = 1
    /\ element_kind(nodes[Top]) = "Html"

(* The token is the end tag of the script or style element that is open *)
MatchingEndTag ==
    /\ token.type = "EndTag"
    /\ token.tag \in {S_script, S_style}
    /\ OpenElement # 0
    /\ ElementKindFromStr(token.tag) = element_kind(nodes[OpenElement])

(* C22: Text mode is entered on a style or script start tag with the mode   *)
(* in force saved.  In Text mode a character token is consumed and becomes  *)
(* the last character of the text under that element; the matching end tag  *)
(* is consumed, pops the stack through that element and restores the saved  *)
(* mode; any other non-character token restores the saved mode without      *)
(* popping and without being consumed.                                      *)
C22_TextModeSavesAndRestores ==
    [][/\ (/\ pc = "loop" /\ mode = "InHead"
           /\ token.type = "StartTag" /\ token.tag \in {S_script, S_style})
          => /\ pc' = "loop" /\ mode' = "Text"
             /\ original_insertion_mode' = mode
             /\ stack_of_open_elements' =
                    Append(stack_of_open_elements, Len(nodes'))
             /\ element_kind(nodes'[Len(nodes')]) = ElementKindFromStr(token.tag)
       /\ (pc = "loop" /\ mode = "Text" /\ token.type # "None")
          => /\ pc' = "loop"
             /\ original_insertion_mode' = original_insertion_mode
             /\ CASE token.type = "Char" ->
                       /\ mode' = "Text"
                       /\ Len(out') = Len(out) + 1
                       /\ nodes'[Top'].kind = "Text"
                       /\ nodes'[Top'].parent = OpenElement
                       /\ Last(nodes'[Top'].text) = token.c
                  [] MatchingEndTag ->
                       /\ mode' = original_insertion_mode
                       /\ Len(out') = Len(out) + 1
                       /\ nodes' = nodes
                       /\ stack_of_open_elements' =
                              CutBelow(element_kind(nodes[OpenElement]))
                  [] OTHER ->
                       /\ mode' = original_insertion_mode
                       /\ token' = token /\ out' = out
                       /\ nodes' = nodes
                       /\ stack_of_open_elements' = stack_of_open_elements]_vars


(* C23: a style or script start tag seen in InBody inserts the element,     *)
(* records InBody as the original insertion mode and switches to Text, and  *)
(* the matching end tag then returns the builder to InBody.                 *)
C23_RawTextElementInBody ==
    [][/\ (/\ pc = "loop" /\ mode = "InBody"
           /\ token.type = "StartTag" /\ token.tag \in {S_script, S_style})
          => /\ pc' = "loop" /\ mode' = "Text"
             /\ original_insertion_mode' = "InBody"
             /\ stack_of_open_elements' =
                    Append(stack_of_open_elements, Len(nodes'))
             /\ element_kind(nodes'[Len(nodes')]) = ElementKindFromStr(token.tag)
       /\ (/\ pc = "loop" /\ mode = "Text" /\ original_insertion_mode = "InBody"
           /\ MatchingEndTag)
          => pc' = "loop" /\ mode' = "InBody"]_vars


(* Position of an insertion mode in the order Initial ... AfterAfterBody *)
ModeRank(m) ==
    CASE m = "Initial" -> 1
      [] m = "BeforeHtml" -> 2
      [] m = "BeforeHead" -> 3
      [] m = "InHead" -> 4
      [] m = "AfterHead" -> 5
      [] m = "InBody" -> 6
      [] m = "AfterBody" -> 7
      [] m = "AfterAfterBody" -> 8
      [] OTHER -> 0

(* A step that enters Text, returns from Text to the saved mode, or moves   *)
(* to a later mode of the order.                                            *)
ForwardOrTextStep ==
    \/ mode' = "Text"
    \/ mode = "Text" /\ mode' = original_insertion_mode
    \/ mode # "Text" /\ ModeRank(mode) < ModeRank(mode')

(* C24 as stated: the insertion mode only moves forward in the order, the   *)
(* only backward step being Text returning to the mode that invoked it.     *)
C24_ModeOnlyForward ==
    [][mode' # mode => ForwardOrTextStep]_vars

(* C24 as the code has it: besides the return from Text there is one more   *)
(* backward step: AfterBody and AfterAfterBody go back to InBody on a tag   *)
(* they do not handle (every tag but </html> in AfterBody, every tag in     *)
(* AfterAfterBody), and leave that tag to be processed by InBody.           *)
C24_ModeForwardOrBackToInBody ==
    [][mode' # mode =>
          \/ ForwardOrTextStep
          \/ /\ mode \in {"AfterBody", "AfterAfterBody"}
             /\ mode' = "InBody"
             /\ token.type \in {"StartTag", "EndTag"}
             /\ ~(mode = "AfterBody" /\ token = EndTag(S_html))
             /\ token' = token /\ out' = out]_vars

(* The builder is back in InBody with a start tag to process after the body *)
(* element was closed.                                                      *)
C24_Witness ==
    /\ pc = "loop" /\ mode = "InBody"
    /\ token.type = "StartTag"
    /\ \E i \in DOMAIN nodes : IsElement(i, "Body")
    /\ OpenOfKind("Body") = {}


(* A character token that the mode in force hands to insert_char *)
CharToInsert ==
    /\ pc = "loop" /\ token.type = "Char"
    /\ \/ mode = "InBody"
       \/ mode \in {"InHead", "AfterHead"} /\ token.c \in {" ", "\n"}

(* C25: a space or newline processed in InHead or AfterHead, and any        *)
(* character processed in InBody, is inserted as text: after the step it is *)
(* the last character of a Text node under the current open element, also   *)
(* when the top of the stack was an element and not a Text node.            *)
C25_CharInsertedAsText ==
    [][CharToInsert
          => /\ stack_of_open_elements' # <<>>
             /\ nodes'[Top'].kind = "Text"
             /\ nodes'[Top'].text # <<>>
             /\ Last(nodes'[Top'].text) = token.c
             /\ nodes'[Top'].parent = OpenElement]_vars


(* The nodes met from n by following next_sibling, n first *)
RECURSIVE SiblingChain(_, _)
SiblingChain(ns, n) ==
    IF n = 0 THEN <<>> ELSE <<n>> \o SiblingChain(ns, ns[n].next_sibling)

(* The child chain of p: first_child, then next_sibling until there is none *)
ChildChain(ns, p) == SiblingChain(ns, ns[p].first_child)

(* The node insert_element attaches to *)
InsertionTarget ==
    IF stack_of_open_elements = <<>> THEN DocumentId ELSE Top

(* This step created an element node, which only insert_element does *)
ElementInserted ==
    /\ Len(nodes') = Len(nodes) + 1
    /\ nodes'[Len(nodes')].kind = "Element"

(* C26: insert_element targets the top of the stack, or the document when   *)
(* the stack is empty: the new element is the last node of the target's     *)
(* child chain, its previous sibling is the target's former last child      *)
(* (none if there was no child), the target's last_child refers to it, its  *)
(* parent is the target, the earlier children are unchanged, and it is the  *)
(* new top of the stack.                                                    *)
C26_InsertElementAppendsToTarget ==
    [][ElementInserted =>
          LET new == Len(nodes')
              target == InsertionTarget
              former == nodes[target].last_child
          IN  /\ ChildChain(nodes', target) = Append(ChildChain(nodes, target), new)
              /\ nodes'[new].previous_sibling = former
              /\ nodes'[new].next_sibling = 0
              /\ nodes'[new].parent = target
              /\ nodes'[target].last_child = new
              /\ stack_of_open_elements' = Append(stack_of_open_elements, new)
              /\ \A i \in DOMAIN nodes :
                    /\ nodes'[i].kind = nodes[i].kind
                    /\ nodes'[i].parent = nodes[i].parent
                    /\ nodes'[i].previous_sibling = nodes[i].previous_sibling
                    /\ i # target =>
                          /\ nodes'[i].first_child = nodes[i].first_child
                          /\ nodes'[i].last_child = nodes[i].last_child
                    /\ i # former => nodes'[i].next_sibling = nodes[i].next_sibling]_vars

(* An element was just inserted under a target that already had two         *)
(* children.                                                                *)
C26_Witness ==
    /\ pc = "loop" /\ panic = ""
    /\ stack_of_open_elements # <<>>
    /\ Top = Len(nodes)
    /\ nodes[Top].kind = "Element"
    /\ nodes[Top].previous_sibling # 0
    /\ nodes[nodes[Top].previous_sibling].previous_sibling # 0
    /\ Len(ChildChain(nodes, nodes[Top].parent)) = 3


(* insert_char is called with a character that is not whitespace while the  *)
(* node on top of the stack is not a Text node.                             *)
NewTextNodeNeeded ==
    /\ pc = "loop" /\ mode \in {"InBody", "Text"}
    /\ token.type = "Char" /\ token.c \notin {" ", "\n"}
    /\ stack_of_open_elements # <<>>
    /\ nodes[Top].kind # "Text"

(* The set of the elements of a sequence *)
Range(seq) == { seq[i] : i \in DOMAIN seq }

(* C27: insert_char with a character that is not whitespace and a top that  *)
(* is not a Text node creates a Text node as the last child of the top and  *)
(* pushes it, and every child the top had before is still in its            *)
(* first-child / next-sibling chain, however many children there were.      *)
C27_InsertCharKeepsChildren ==
    [][NewTextNodeNeeded =>
          LET new == Len(nodes') IN
          /\ Len(nodes') = Len(nodes) + 1
          /\ nodes'[new].kind = "Text" /\ nodes'[new].text = <<token.c>>
          /\ nodes'[new].parent = Top
          /\ nodes'[Top].last_child = new
          /\ Last(ChildChain(nodes', Top)) = new
          /\ stack_of_open_elements' = Append(stack_of_open_elements, new)
          /\ Range(ChildChain(nodes, Top)) \subseteq Range(ChildChain(nodes', Top))]_vars


(* p and every node below it in the tree of first_child / next_sibling links *)
RECURSIVE Descendants(_, _)
Descendants(ns, p) ==
    {p} \cup UNION { Descendants(ns, c) : c \in Range(ChildChain(ns, p)) }

(* The links of node n agree with the links of the nodes they refer to *)
LinksConsistent(n) ==
    LET chain == ChildChain(nodes, n) IN
    /\ n = DocumentId =>
          /\ nodes[n].parent = 0
          /\ nodes[n].previous_sibling = 0
          /\ nodes[n].next_sibling = 0
    /\ nodes[n].first_child # 0 =>
          nodes[nodes[n].first_child].previous_sibling = 0
    /\ nodes[n].next_sibling # 0 =>
          /\ nodes[nodes[n].next_sibling].previous_sibling = n
          /\ nodes[nodes[n].next_sibling].parent = nodes[n].parent
    /\ nodes[n].previous_sibling # 0 =>
          /\ nodes[nodes[n].previous_sibling].next_sibling = n
          /\ nodes[nodes[n].previous_sibling].parent = nodes[n].parent
    /\ \A i \in DOMAIN chain : nodes[chain[i]].parent = n
    /\ nodes[n].last_child = (IF chain = <<>> THEN 0 ELSE Last(chain))

(* C28: the links of all nodes reachable from the document are mutually     *)
(* consistent: the document has no parent and no siblings; a first child    *)
(* has no previous sibling; next and previous sibling are mutual and join   *)
(* nodes of the same parent; every node in the child chain of p has parent  *)
(* p; p's last_child is the final node of that chain, and is unset exactly  *)
(* when p has no child.                                                     *)
C28_LinksConsistent ==
    \A n \in Descendants(nodes, DocumentId) : LinksConsistent(n)

(* The tree holds a Text node that insert_char put after an earlier child,  *)
(* and a node that this took out of its parent's child chain.               *)
C28_Witness ==
    /\ \E n \in Descendants(nodes, DocumentId) :
          nodes[n].kind = "Text" /\ nodes[n].previous_sibling # 0
    /\ \E n \in DOMAIN nodes : n \notin Descendants(nodes, DocumentId)

(* C29: start_new_attribute, append_attribute and set_self_closing_flag are *)
(* only performed while the token under construction is a StartTag, so the  *)
(* tokenizer never fails in them; a token that has the self_closing flag is *)
(* a StartTag whose last two characters were "/" and ">"; an end tag that   *)
(* carries attribute text or a trailing "/" is tokenized to an EndTag.      *)
C29_StartTagOperationsOnStartTagOnly ==
    /\ tok.panic # "latest_token should be StartTag"
    /\ (out # <<>> /\ Last(out).self_closing)
          => /\ Last(out).type = "StartTag"
             /\ tok.pos >= 2
             /\ input[tok.pos - 1] = "/" /\ input[tok.pos] = ">"
    /\ (desc # NoDesc /\ desc.end /\ out # <<>>)
          => out[1].type = "EndTag"


(* The input with every newline replaced by a space *)
SpaceForNewline(inp) ==
    [i \in DOMAIN inp |-> IF inp[i] = "\n" THEN " " ELSE inp[i]]

(* C30: inside a tag a newline is a terminator exactly as a space is: the   *)
(* first token of an input written with newlines is the first token of the  *)
(* same input written with spaces, and <p\nclass=a> gives StartTag p with   *)
(* the single attribute class=a.                                            *)
C30_NewlineTerminatesLikeSpace ==
    /\ (input \in SeparatorInputs /\ out # <<>>)
          => out[1] = next(TokenizerNew, SpaceForNewline(input)).ret
    /\ (input = <<"<","p","\n","c","l","a","s","s","=","a",">">> /\ out # <<>>)
          => out[1] = StartTag(<<"p">>, FALSE,
                               <<[name |-> <<"c","l","a","s","s">>, value |-> <<"a">>]>>)


(* Every entry of the stack has the entry beneath it as parent, the bottom  *)
(* entry the document.                                                      *)
StackIsAncestorChain ==
    \A i \in DOMAIN stack_of_open_elements :
        nodes[stack_of_open_elements[i]].parent =
            (IF i = 1 THEN DocumentId ELSE stack_of_open_elements[i - 1])

(* A node pushed by this step is reachable from the document after it *)
PushedIsReachable ==
    (/\ Len(stack_of_open_elements') = Len(stack_of_open_elements) + 1
     /\ Front(stack_of_open_elements') = stack_of_open_elements)
       => Last(stack_of_open_elements') \in Descendants(nodes', DocumentId)

(* C31: in every reachable state of a build the open-element stack is a     *)
(* chain of ancestors: the parent of the bottom entry is the document, the  *)
(* parent of every other entry is the entry directly beneath it; and every  *)
(* entry is reachable from the document through first-child and             *)
(* next-sibling links at the moment it is pushed.                           *)
C31_StackIsAncestorChain ==
    []StackIsAncestorChain /\ [][PushedIsReachable]_vars

(* The stack holds html, body, an element and a Text node on top *)
C31_Witness ==
    /\ pc = "loop" /\ panic = ""
    /\ Len(stack_of_open_elements) >= 4
    /\ nodes[Top].kind = "Text"
    /\ element_kind(nodes[stack_of_open_elements[2]]) = "Body"


(* C32: in every tree returned by construct_tree the document has at most   *)
(* one child, and that child is the html element; no other element or text  *)
(* node is attached directly to the document, also when start tags follow   *)
(* </html>.                                                                 *)
C32_DocumentHasOnlyHtml ==
    pc = "returned" =>
       /\ Len(ChildChain(nodes, DocumentId)) <= 1
       /\ \A n \in DOMAIN nodes :
             (n # DocumentId /\ nodes[n].parent = DocumentId)
                => IsElement(n, "Html")


(* C33: in every reachable state of a build a Text node has no children: an *)
(* element that follows character data is attached to the enclosing element *)
(* as a sibling after the Text node, never as a child of the Text node.     *)
C33_TextNodeHasNoChildren ==
    \A n \in DOMAIN nodes :
        /\ nodes[n].kind = "Text" =>
              nodes[n].first_child = 0 /\ nodes[n].last_child = 0
        /\ nodes[n].parent # 0 => nodes[nodes[n].parent].kind # "Text"


(* The results of next so far that are tokens *)
TokensReturned ==
    { i \in DOMAIN out : out[i].type \notin {"None", "Panic"} }

(* A call of next: the cursor does not move backwards; when the call        *)
(* returns, the cursor is within 0..len; when it returns a token, the       *)
(* cursor has advanced; after a None the call returns None again and the    *)
(* tokenizer is unchanged.                                                  *)
CursorStep ==
    Len(out') = Len(out) + 1 =>
       /\ tok'.pos >= tok.pos
       /\ Last(out').type # "Panic" =>
             tok'.pos >= 0 /\ tok'.pos <= Len(input)
       /\ Last(out').type \notin {"None", "Panic"} =>
             tok'.pos >= tok.pos + 1
       /\ (out # <<>> /\ Last(out).type = "None") =>
             Last(out').type = "None" /\ tok' = tok

(* C34: the tokenizer cursor never moves backwards and is within 0..len at  *)
(* every return of next; every call that returns a token has advanced the   *)
(* cursor by at least one character, so an input of n characters yields at  *)
(* most n tokens; once next has returned None every later call returns None *)
(* and changes no tokenizer state.                                          *)
C34_CursorMonotone ==
    [](Cardinality(TokensReturned) <= Len(input)) /\ [][CursorStep]_vars

(* next returned a start tag and character tokens and then None twice *)
C34_Witness ==
    /\ Len(out) >= 4
    /\ out[Len(out)].type = "None" /\ out[Len(out) - 1].type = "None"
    /\ \E i \in DOMAIN out : out[i].type = "StartTag"
    /\ \E i \in DOMAIN out : out[i].type = "Char"


(* The input opens a start or end tag (the tag name has begun), holds no    *)
(* quote and holds a ">".                                                   *)
OpensUnquotedTag ==
    /\ Len(input) >= 3
    /\ input[1] = "<"
    /\ \/ is_ascii_alphabetic(input[2])
       \/ input[2] = "/" /\ is_ascii_alphabetic(input[3])
    /\ \A i \in DOMAIN input : input[i] \notin {"\"", "'"}
    /\ \E i \in DOMAIN input : input[i] = ">"

(* The position of the first ">" of the input *)
FirstGt ==
    CHOOSE i \in DOMAIN input :
        input[i] = ">" /\ \A j \in 1..(i - 1) : input[j] # ">"

(* C35: in every tokenizer state inside a tag other than a quoted attribute *)
(* value a ">" ends the tag and emits it: the first call of next returns    *)
(* the tag with the cursor just after the first ">" and the tokenizer back  *)
(* in Data.  In particular <p foo> is emitted as StartTag p with one        *)
(* attribute named foo with an empty value.                                 *)
C35_GtEndsTag ==
    /\ (OpensUnquotedTag /\ Len(out) = 1)
          => /\ out[1].type \in {"StartTag", "EndTag"}
             /\ tok.pos = FirstGt
             /\ tok.state = "Data"
    /\ (input \in BareAttributeInputs /\ out # <<>>)
          => out[1] = StartTag(<<"p">>, FALSE,
                               <<[name |-> <<"f","o","o">>, value |-> <<>>]>>)

=============================================================================
